---- MODULE Spec2Model ----
(***************************************************************************)
(* Model of the pointer-based binary search tree of src/src/lib.rs:        *)
(* Tree / Node (insert, get, len), the in-order TreeIter, the slot         *)
(* accessors and the rotate_r / rotate_l primitives.                       *)
(*                                                                         *)
(* An Option<T> is a sequence of length 0 (None) or 1 (Some(x)); a         *)
(* Box<Node> is the record [k, v, l, r] whose l and r are such options.    *)
(* A shared reference &Node is the node value it points to (the tree is    *)
(* frozen while it is borrowed).                                           *)
(***************************************************************************)
EXTENDS Integers, Sequences, FiniteSets, TLC

\* ---------------------------------------------------------------- bounds
MaxKey == 3
EqMaxKey == 2

\* K: the keys inserted.  V: the values inserted; the code never inspects a
\* value, it only moves and (in ==) compares them, so two distinct ones do
Keys == 0..MaxKey
Values == {1, 2}
\* the keys of the two trees compared with ==
EqKeys == 0..EqMaxKey

\* ---------------------------------------------------------------- options
None == <<>>
Some(x) == <<x>>

VARIABLES
  tree,     \* Tree.0 : Option<Box<Node>>
  other,    \* a second Tree, the right-hand side of ==
  old,      \* the tree the last operation was applied to
  op,       \* the last operation and its arguments
  ret,      \* what the last insert returned
  model,    \* reference map: key -> Option of the last value inserted
  iter,     \* "idle" (no iterator), "fresh", "some" or "none" (last next())
  curr,     \* TreeIter.curr : Option<&Node>
  stack,    \* TreeIter.stack : Vec<&Node>
  out       \* the items next() has yielded, in order

vars == <<tree, other, old, op, ret, model, iter, curr, stack, out>>

\* ---------------------------------------------------------------- Node
NodeNew(k, v) == [k |-> k, v |-> v, l |-> None, r |-> None]

\* NodeInsert with the Equal arm handing back the new value instead of the
\* one mem::replace took out
RECURSIVE NodeInsertReturnsNew(_, _, _)
NodeInsertReturnsNew(n, k, v) ==
  IF n.k > k
    THEN IF n.l = None
           THEN [node |-> [n EXCEPT !.l = Some(NodeNew(k, v))], ret |-> None]
           ELSE LET s == NodeInsertReturnsNew(n.l[1], k, v)
                IN [node |-> [n EXCEPT !.l = Some(s.node)], ret |-> s.ret]
  ELSE IF n.k = k
    THEN [node |-> [n EXCEPT !.v = v], ret |-> Some(v)]
  ELSE IF n.r = None
           THEN [node |-> [n EXCEPT !.r = Some(NodeNew(k, v))], ret |-> None]
           ELSE LET s == NodeInsertReturnsNew(n.r[1], k, v)
                IN [node |-> [n EXCEPT !.r = Some(s.node)], ret |-> s.ret]

\* NodeInsert with the Greater and Less arms of the descent exchanged
RECURSIVE NodeInsertFlipped(_, _, _)
NodeInsertFlipped(n, k, v) ==
  IF n.k < k
    THEN IF n.l = None
           THEN [node |-> [n EXCEPT !.l = Some(NodeNew(k, v))], ret |-> None]
           ELSE LET s == NodeInsertFlipped(n.l[1], k, v)
                IN [node |-> [n EXCEPT !.l = Some(s.node)], ret |-> s.ret]
  ELSE IF n.k = k
    THEN [node |-> [n EXCEPT !.v = v], ret |-> Some(n.v)]
  ELSE IF n.r = None
           THEN [node |-> [n EXCEPT !.r = Some(NodeNew(k, v))], ret |-> None]
           ELSE LET s == NodeInsertFlipped(n.r[1], k, v)
                IN [node |-> [n EXCEPT !.r = Some(s.node)], ret |-> s.ret]

RECURSIVE NodeInsert(_, _, _)
NodeInsert(n, k, v) ==
  IF n.k > k
    THEN IF n.l = None
           THEN [node |-> [n EXCEPT !.l = Some(NodeNew(k, v))], ret |-> None]
           ELSE LET s == NodeInsert(n.l[1], k, v)
                IN [node |-> [n EXCEPT !.l = Some(s.node)], ret |-> s.ret]
  ELSE IF n.k = k
    THEN [node |-> [n EXCEPT !.v = v], ret |-> Some(n.v)]
  ELSE IF n.r = None
           THEN [node |-> [n EXCEPT !.r = Some(NodeNew(k, v))], ret |-> None]
           ELSE LET s == NodeInsert(n.r[1], k, v)
                IN [node |-> [n EXCEPT !.r = Some(s.node)], ret |-> s.ret]

\* NodeGet with the Less arm descending to the left child too
RECURSIVE NodeGetLeftOnly(_, _)
NodeGetLeftOnly(n, k) ==
  IF n.k = k
    THEN Some(n.v)
  ELSE IF n.l = None THEN None ELSE NodeGetLeftOnly(n.l[1], k)

RECURSIVE NodeGet(_, _)
NodeGet(n, k) ==
  IF n.k > k
    THEN IF n.l = None THEN None ELSE NodeGet(n.l[1], k)
  ELSE IF n.k = k
    THEN Some(n.v)
  ELSE IF n.r = None THEN None ELSE NodeGet(n.r[1], k)

RECURSIVE NodeLen(_)
NodeLen(n) ==
  (IF n.l = None THEN 0 ELSE NodeLen(n.l[1]))
    + 1
    + (IF n.r = None THEN 0 ELSE NodeLen(n.r[1]))

\* ---------------------------------------------------------------- Tree
TreeNew == None

\* Tree::insert that descends from the root only when the root is not k
\* and otherwise puts a fresh node in the root slot
TreeInsertFreshRoot(t, k, v) ==
  IF t = None
    THEN [tree |-> Some(NodeNew(k, v)), ret |-> None]
  ELSE IF t[1].k = k
    THEN [tree |-> Some(NodeNew(k, v)), ret |-> Some(t[1].v)]
    ELSE LET s == NodeInsert(t[1], k, v)
         IN [tree |-> Some(s.node), ret |-> s.ret]

TreeInsert(t, k, v) ==
  IF t = None
    THEN [tree |-> Some(NodeNew(k, v)), ret |-> None]
    ELSE LET s == NodeInsert(t[1], k, v)
         IN [tree |-> Some(s.node), ret |-> s.ret]

TreeWith(k, v) == TreeInsert(TreeNew, k, v).tree

TreeGet(t, k) == IF t = None THEN None ELSE NodeGet(t[1], k)

TreeLen(t) == IF t = None THEN 0 ELSE NodeLen(t[1])

TreeIsEmpty(t) == t = None

\* derived PartialEq of Node / Option<Box<Node>> / Tree: field by field
\* an equality that compares the keys and the children but not the values
RECURSIVE NodeEqKeysOnly(_, _)
NodeEqKeysOnly(a, b) ==
  /\ a.k = b.k
  /\ IF a.l = None \/ b.l = None THEN a.l = None /\ b.l = None
                                 ELSE NodeEqKeysOnly(a.l[1], b.l[1])
  /\ IF a.r = None \/ b.r = None THEN a.r = None /\ b.r = None
                                 ELSE NodeEqKeysOnly(a.r[1], b.r[1])

RECURSIVE NodeEq(_, _)
NodeEq(a, b) ==
  /\ a.k = b.k
  /\ a.v = b.v
  /\ IF a.l = None \/ b.l = None THEN a.l = None /\ b.l = None
                                 ELSE NodeEq(a.l[1], b.l[1])
  /\ IF a.r = None \/ b.r = None THEN a.r = None /\ b.r = None
                                 ELSE NodeEq(a.r[1], b.r[1])

TreeEq(a, b) ==
  IF a = None \/ b = None THEN a = None /\ b = None ELSE NodeEq(a[1], b[1])

\* ---------------------------------------------------------------- TreeIter
TreeIterNew(t) == [curr |-> t, stack |-> <<>>]

\* the while-let loop of next(): push curr and walk to its left child
RECURSIVE PushLeft(_, _)
PushLeft(c, st) ==
  IF c = None THEN [curr |-> c, stack |-> st]
              ELSE PushLeft(c[1].l, Append(st, c[1]))

\* next() that forgets to continue into the right child of the item
TreeIterNextNoRight(c, st) ==
  LET w == PushLeft(c, st)
  IN IF w.stack # <<>>
       THEN LET it == w.stack[Len(w.stack)]
            IN [curr |-> None, stack |-> SubSeq(w.stack, 1, Len(w.stack) - 1),
                item |-> Some(it)]
       ELSE [curr |-> w.curr, stack |-> w.stack, item |-> None]

TreeIterNext(c, st) ==
  LET w == PushLeft(c, st)
  IN IF w.stack # <<>>
       THEN LET it == w.stack[Len(w.stack)]
            IN [curr |-> it.r, stack |-> SubSeq(w.stack, 1, Len(w.stack) - 1),
                item |-> Some(it)]
       ELSE [curr |-> w.curr, stack |-> w.stack, item |-> None]

\* ---------------------------------------------------------------- slots
\* slot accessors on Option<Box<Node>>
l(root) == IF root = None THEN None ELSE root[1].l
r(root) == IF root = None THEN None ELSE root[1].r
len(root) == IF root = None THEN None ELSE Some(NodeLen(root[1]))

\* rotate_r hanging the old root on the left of the promoted child
rotate_r_wrong_side(root) ==
  IF root # None
    THEN LET new_r == root[1]
         IN IF new_r.l # None
              THEN LET new_root == new_r.l[1]
                   IN Some([new_root EXCEPT !.l = Some([new_r EXCEPT !.l = None])])
              ELSE Some(new_r)
    ELSE root

\* rotate_r that also empties the left slot of the promoted child
rotate_r_drops_l(root) ==
  IF root # None
    THEN LET new_r == root[1]
         IN IF new_r.l # None
              THEN LET new_root == new_r.l[1]
                   IN Some([new_root EXCEPT !.l = None,
                                            !.r = Some([new_r EXCEPT !.l = None])])
              ELSE Some(new_r)
    ELSE root

rotate_r(root) ==
  IF root # None
    THEN LET new_r == root[1]
         IN IF new_r.l # None
              THEN LET new_root == new_r.l[1]
                   IN Some([new_root EXCEPT !.r = Some([new_r EXCEPT !.l = None])])
              ELSE Some(new_r)
    ELSE root

\* rotate_l written as a copy of rotate_r: it promotes the left child
rotate_l_promotes_l(root) == rotate_r(root)

rotate_l(root) ==
  IF root # None
    THEN LET new_l == root[1]
         IN IF new_l.r # None
              THEN LET new_root == new_l.r[1]
                   IN Some([new_root EXCEPT !.l = Some([new_l EXCEPT !.r = None])])
              ELSE Some(new_l)
    ELSE root

\* a slot is named by the path of child fields leading to it from Tree.0
RECURSIVE Slots(_)
Slots(s) ==
  IF s = None THEN {<<>>}
  ELSE {<<>>} \cup {<<"l">> \o p : p \in Slots(s[1].l)}
              \cup {<<"r">> \o p : p \in Slots(s[1].r)}

RECURSIVE SlotAt(_, _)
SlotAt(s, p) ==
  IF p = <<>> THEN s
  ELSE SlotAt(IF Head(p) = "l" THEN s[1].l ELSE s[1].r, Tail(p))

RECURSIVE SetSlot(_, _, _)
SetSlot(s, p, new) ==
  IF p = <<>> THEN new
  ELSE IF Head(p) = "l"
    THEN Some([s[1] EXCEPT !.l = SetSlot(s[1].l, Tail(p), new)])
    ELSE Some([s[1] EXCEPT !.r = SetSlot(s[1].r, Tail(p), new)])

\* ---------------------------------------------------------------- actions
NoOp == [name |-> "new", k |-> 0, v |-> 0, path |-> <<>>]

Init ==
  /\ tree = TreeNew
  /\ other = TreeNew
  /\ old = TreeNew
  /\ op = NoOp
  /\ ret = None
  /\ model = [k \in Keys |-> None]
  /\ iter = "idle"
  /\ curr = None
  /\ stack = <<>>
  /\ out = <<>>

\* the call tree.insert(k, v): the tree it leaves and the value it returns
InsertCall(k, v) ==
  LET s == TreeInsert(tree, k, v)
  IN /\ tree' = s.tree
     /\ ret' = s.ret
     /\ old' = tree
     /\ op' = [name |-> "insert", k |-> k, v |-> v, path |-> <<>>]

\* tree.insert(k, v), recorded in the reference map; a live iterator borrows
\* the tree, so none is live
Insert ==
  /\ iter = "idle"
  /\ \E k \in Keys, v \in Values :
       /\ InsertCall(k, v)
       /\ model' = [model EXCEPT ![k] = Some(v)]
  /\ UNCHANGED <<other, iter, curr, stack, out>>

\* let mut iter = tree.iter()
IterNew ==
  /\ iter = "idle"
  /\ LET i == TreeIterNew(tree)
     IN curr' = i.curr /\ stack' = i.stack
  /\ iter' = "fresh"
  /\ out' = <<>>
  /\ UNCHANGED <<tree, other, old, op, ret, model>>

\* iter.next()
IterNext ==
  /\ iter # "idle"
  /\ LET n == TreeIterNext(curr, stack)
     IN /\ curr' = n.curr
        /\ stack' = n.stack
        /\ out' = IF n.item = None THEN out ELSE Append(out, n.item[1])
        /\ iter' = IF n.item = None THEN "none" ELSE "some"
  /\ UNCHANGED <<tree, other, old, op, ret, model>>

\* the iterator goes out of scope
IterDrop ==
  /\ iter # "idle"
  /\ iter' = "idle"
  /\ curr' = None
  /\ stack' = <<>>
  /\ out' = <<>>
  /\ UNCHANGED <<tree, other, old, op, ret, model>>

Next == Insert \/ IterNew \/ IterNext \/ IterDrop

Spec == Init /\ [][Next]_vars

\* tree.insert(k, v) between rotations (no reference map is kept: a
\* rotation is not a map operation)
InsertRot ==
  /\ \E k \in Keys, v \in Values : InsertCall(k, v)
  /\ UNCHANGED <<other, model, iter, curr, stack, out>>

\* rotate_r(slot) for any slot of the tree
RotateR ==
  /\ \E p \in Slots(tree) :
       /\ tree' = SetSlot(tree, p, rotate_r(SlotAt(tree, p)))
       /\ op' = [name |-> "rotate_r", k |-> 0, v |-> 0, path |-> p]
  /\ old' = tree
  /\ UNCHANGED <<other, ret, model, iter, curr, stack, out>>

\* rotate_l(slot) for any slot of the tree
RotateL ==
  /\ \E p \in Slots(tree) :
       /\ tree' = SetSlot(tree, p, rotate_l(SlotAt(tree, p)))
       /\ op' = [name |-> "rotate_l", k |-> 0, v |-> 0, path |-> p]
  /\ old' = tree
  /\ UNCHANGED <<other, ret, model, iter, curr, stack, out>>

NextRot == InsertRot \/ RotateR \/ RotateL

SpecRot == Init /\ [][NextRot]_vars

\* two trees built side by side, to be compared with ==
InsertLhs ==
  /\ \E k \in EqKeys, v \in Values : tree' = TreeInsert(tree, k, v).tree
  /\ UNCHANGED <<other, old, op, ret, model, iter, curr, stack, out>>

InsertRhs ==
  /\ \E k \in EqKeys, v \in Values : other' = TreeInsert(other, k, v).tree
  /\ UNCHANGED <<tree, old, op, ret, model, iter, curr, stack, out>>

NextEq == InsertLhs \/ InsertRhs

SpecEq == Init /\ [][NextEq]_vars

\* ---------------------------------------------------------------- views
\* what the properties below read off a tree

\* the nodes of a subtree as <<path, key, value>>
RECURSIVE Flat(_)
Flat(s) ==
  IF s = None THEN {}
  ELSE {<<(<<>>), s[1].k, s[1].v>>}
         \cup {<<(<<"l">> \o e[1]), e[2], e[3]>> : e \in Flat(s[1].l)}
         \cup {<<(<<"r">> \o e[1]), e[2], e[3]>> : e \in Flat(s[1].r)}

Shape(s) == {e[1] : e \in Flat(s)}
Entries(s) == {<<e[2], e[3]>> : e \in Flat(s)}
KeysIn(s) == {e[2] : e \in Flat(s)}

\* the keys of a subtree, left subtree first, then the node, then the right
RECURSIVE Inorder(_)
Inorder(s) ==
  IF s = None THEN <<>>
  ELSE Inorder(s[1].l) \o <<s[1].k>> \o Inorder(s[1].r)

\* the subtree the last rotation was applied to, before and after
Before == SlotAt(old, op.path)
After == SlotAt(tree, op.path)

\* ---------------------------------------------------------------- properties

\* C1: whatever inserts built the tree, the keys a fresh iterator has
\* yielded so far are strictly increasing, each greater than the one before.
C1_IterStrictlyIncreasing ==
  \A i \in 2..Len(out) : out[i].k > out[i - 1].k

C1_Witness ==
  /\ iter = "none"
  /\ Len(out) = 4
  /\ tree[1].l # None
  /\ tree[1].r # None

\* C2: insert(k, v) of an absent key returns None and adds one to len();
\* of a present key it returns the previous value, leaves get(&k) = v and
\* len() as it was; len() is the number of distinct keys inserted so far.
C2_InsertContract ==
  /\ TreeLen(tree) = Cardinality({k \in Keys : model[k] # None})
  /\ op.name = "insert" =>
       IF op.k \in KeysIn(old)
         THEN /\ ret = TreeGet(old, op.k)
              /\ ret # None
              /\ TreeGet(tree, op.k) = Some(op.v)
              /\ TreeLen(tree) = TreeLen(old)
         ELSE /\ ret = None
              /\ TreeLen(tree) = TreeLen(old) + 1

C2_Witness ==
  /\ op.name = "insert"
  /\ op.k \in KeysIn(old)
  /\ ret # None
  /\ ret # Some(op.v)
  /\ TreeLen(tree) = 3

\* C3: get(&k) is the value of the most recent insert(k, _), and None for
\* a key never inserted: the tree agrees with the reference map.
C3_GetIsLastInserted ==
  \A k \in Keys : TreeGet(tree, k) = model[k]

C3_Witness ==
  /\ op.name = "insert"
  /\ ret # None
  /\ ret # Some(op.v)
  /\ TreeGet(tree, op.k) = Some(op.v)
  /\ \E k \in Keys : model[k] = None /\ TreeGet(tree, k) = None
  /\ TreeLen(tree) = 3

\* C4: rotate_r and rotate_l leave the in-order key sequence of the subtree
\* they are applied to as it was.
C4_RotationKeepsInorder ==
  op.name \in {"rotate_r", "rotate_l"} => Inorder(After) = Inorder(Before)

\* C5: two trees are == exactly when they have the same shape and the same
\* key and value at every position; trees of different shapes are unequal
\* even when they hold the same entries.
C5_EqIsStructural ==
  /\ TreeEq(tree, other) <=> Flat(tree) = Flat(other)
  /\ Shape(tree) # Shape(other) => ~TreeEq(tree, other)

\* the trees of insertion orders [1,0,2] and [0,1,2]
Built102 == TreeInsert(TreeInsert(TreeWith(1, 1), 0, 1).tree, 2, 1).tree
Built012 == TreeInsert(TreeInsert(TreeWith(0, 1), 1, 1).tree, 2, 1).tree

C5_Witness ==
  /\ tree = Built102
  /\ other = Built012
  /\ Entries(tree) = Entries(other)
  /\ ~TreeEq(tree, other)

\* C6: insert never restructures: of a present key it changes the value of
\* that one node and nothing else; of an absent key it adds one leaf in a
\* slot that was empty and leaves every node where and as it was.
C6_InsertKeepsShape ==
  op.name = "insert" =>
    IF op.k \in KeysIn(old)
      THEN /\ Shape(tree) = Shape(old)
           /\ \A e \in Flat(old) :
                IF e[2] = op.k THEN <<e[1], op.k, op.v>> \in Flat(tree)
                               ELSE e \in Flat(tree)
      ELSE \E p \in Slots(old) :
             /\ SlotAt(old, p) = None
             /\ SlotAt(tree, p) = Some(NodeNew(op.k, op.v))
             /\ Flat(tree) = Flat(old) \cup {<<p, op.k, op.v>>}

C6_Witness ==
  /\ op.name = "insert"
  /\ op.k \in KeysIn(old)
  /\ tree # old
  /\ l(old) # None
  /\ r(old) # None
  /\ old[1].k = op.k

\* C7: after any inserts and rotations of any slots, every node has only
\* smaller keys in its left subtree and only greater keys in its right
\* subtree, and no key is in two nodes.
C7_BstOrdering ==
  /\ \A p \in Slots(tree) :
       LET s == SlotAt(tree, p)
       IN s # None =>
            /\ \A j \in KeysIn(s[1].l) : j < s[1].k
            /\ \A j \in KeysIn(s[1].r) : j > s[1].k
  /\ Cardinality(KeysIn(tree)) = Cardinality(Flat(tree))

C7_Witness ==
  /\ op.name = "rotate_l"
  /\ op.path # <<>>
  /\ tree # old
  /\ TreeLen(tree) = 4

\* C8: rotate_r of a subtree with a left child makes that child the root,
\* the old root its right child, and leaves the old root its right subtree;
\* rotate_l is the mirror image.
C8_RotationPromotesChild ==
  /\ op.name = "rotate_r" /\ l(Before) # None =>
       /\ After # None
       /\ After[1].k = l(Before)[1].k
       /\ After[1].v = l(Before)[1].v
       /\ r(After) # None
       /\ r(After)[1].k = Before[1].k
       /\ r(After)[1].v = Before[1].v
       /\ r(r(After)) = r(Before)
  /\ op.name = "rotate_l" /\ r(Before) # None =>
       /\ After # None
       /\ After[1].k = r(Before)[1].k
       /\ After[1].v = r(Before)[1].v
       /\ l(After) # None
       /\ l(After)[1].k = Before[1].k
       /\ l(After)[1].v = Before[1].v
       /\ l(l(After)) = l(Before)

C8_Witness ==
  /\ op.name = "rotate_l"
  /\ r(Before) # None
  /\ l(Before) # None
  /\ l(r(Before)) # None

\* C9 as stated: after rotate_r of a subtree with a left child, the left
\* slot of the new root is empty.
C9_NewRootHasNoLeft ==
  op.name = "rotate_r" /\ l(Before) # None => l(After) = None

\* C9 amended: after rotate_r of a subtree with a left child, the left
\* slot of the new root holds the left subtree the promoted child already
\* had, unchanged; it is empty exactly when that child had no left child.
C9_NewRootKeepsItsLeft ==
  op.name = "rotate_r" /\ l(Before) # None => l(After) = l(l(Before))

C9_Witness ==
  /\ op.name = "rotate_r"
  /\ l(Before) # None
  /\ l(l(Before)) # None
  /\ l(After) # None

\* C10: a fresh iterator yields every node once and then None for good:
\* never more than len() items, None exactly once len() items are out (at
\* once for the empty tree), and by then the items are the nodes of the
\* tree, each with the value get returns for its key.
C10_IterFiniteComplete ==
  iter # "idle" =>
    /\ Len(out) <= TreeLen(tree)
    /\ TreeIterNext(curr, stack).item = None <=> Len(out) = TreeLen(tree)
    /\ iter = "none" =>
         /\ Len(out) = TreeLen(tree)
         /\ TreeIterNext(curr, stack).item = None
         /\ Cardinality({out[i].k : i \in 1..Len(out)}) = Len(out)
         /\ {<<out[i].k, out[i].v>> : i \in 1..Len(out)} = Entries(tree)
         /\ \A i \in 1..Len(out) : TreeGet(tree, out[i].k) = Some(out[i].v)

C10_Witness ==
  /\ iter = "none"
  /\ Len(out) = 4
  /\ tree[1].l # None
  /\ tree[1].r # None
  /\ TreeIterNext(curr, stack).item = None
====
